---- MODULE Spec2Model ----
(***************************************************************************)
(* Model of src/app.py, the HTML audit-report generator: the record        *)
(* loader, the section organizer, the status classifier, the navigation    *)
(* and body renderer, the batch driver main(), and the filter script of    *)
(* the emitted document.                                                   *)
(*                                                                         *)
(* A Python str is a sequence of one-character strings, so that `in`,      *)
(* lower(), replace() and split() are computed character by character.     *)
(***************************************************************************)
EXTENDS Integers, Sequences, FiniteSets, TLC

VARIABLES
    value,          \* get_status_type: the argument of the call
    status,         \* get_status_type: the returned status, "unset" before the call
    folders,        \* main: the audit folders found, in listing order
    fidx,           \* main: index of the folder the for-loop is at
    mpc,            \* main: position of the driver
    attempts,       \* main: per folder, number of generate_html_report calls
    gpc,            \* generate_html_report: position inside the call
    items,          \* generate_html_report: the item list read_csv_data returned
    sections,       \* generate_html_report: organize_items_by_sections' result
    toc,            \* generate_html_report: navigation entries rendered so far
    body,           \* generate_html_report: body section elements rendered so far
    outputs,        \* the file system: per folder, content of its output path
    document,       \* browser: the body of the loaded document
    checked,        \* browser: the four filter checkboxes
    activeOpts,     \* browser: filter options carrying the class "active"
    activeFilters,  \* browser: the script's activeFilters set
    hiddenItems,    \* browser: item elements carrying the class "hidden"
    hiddenSections, \* browser: section elements carrying the class "hidden"
    loaded          \* browser: DOMContentLoaded has been dispatched

vars == <<value, status, folders, fidx, mpc, attempts, gpc, items, sections,
          toc, body, outputs, document, checked, activeOpts, activeFilters,
          hiddenItems, hiddenSections, loaded>>

classifyVars == <<value, status>>
mainVars == <<folders, fidx, mpc, attempts, gpc, items, sections, toc, body, outputs>>
browserVars == <<document, checked, activeOpts, activeFilters, hiddenItems,
                 hiddenSections, loaded>>

\* The parts of the state a specification leaves alone.
Idle ==
    /\ folders = <<>> /\ fidx = 0 /\ mpc = "idle" /\ attempts = <<>>
    /\ gpc = "idle" /\ items = <<>> /\ sections = <<>> /\ toc = <<>>
    /\ body = <<>> /\ outputs = <<>>

NoBrowser ==
    /\ document = <<>> /\ checked = {} /\ activeOpts = {} /\ activeFilters = {}
    /\ hiddenItems = {} /\ hiddenSections = {} /\ loaded = FALSE

NoClassify == value = <<>> /\ status = "unset"

(***************************************************************************)
(* Bounds of the model.                                                    *)
(***************************************************************************)
MaxFragments == 3
MaxRows == 4
MaxFolders == 3

(***************************************************************************)
(* Python str operations.                                                  *)
(***************************************************************************)

\* An argument that is used many times is first bound to its value (t), so
\* that it is evaluated once.

\* sub in s
Contains(s, sub) ==
    \E t \in {s} :
        \E i \in 0..(Len(t) - Len(sub)) : SubSeq(t, i + 1, i + Len(sub)) = sub

LowerOf ==
    [c \in {"A", "B", "C", "D", "E", "F", "G", "H", "I", "J", "K", "L", "M", "N",
            "O", "P", "Q", "R", "S", "T", "U", "V", "W", "X", "Y", "Z"} |->
        CASE c = "A" -> "a" [] c = "B" -> "b" [] c = "C" -> "c" [] c = "D" -> "d"
          [] c = "E" -> "e" [] c = "F" -> "f" [] c = "G" -> "g" [] c = "H" -> "h"
          [] c = "I" -> "i" [] c = "J" -> "j" [] c = "K" -> "k" [] c = "L" -> "l"
          [] c = "M" -> "m" [] c = "N" -> "n" [] c = "O" -> "o" [] c = "P" -> "p"
          [] c = "Q" -> "q" [] c = "R" -> "r" [] c = "S" -> "s" [] c = "T" -> "t"
          [] c = "U" -> "u" [] c = "V" -> "v" [] c = "W" -> "w" [] c = "X" -> "x"
          [] c = "Y" -> "y" [] c = "Z" -> "z"]

\* s.lower(): the letters A-Z are mapped, every other character is kept.
Lower(s) ==
    CHOOSE r \in {[i \in 1..Len(t) |->
                      IF t[i] \in DOMAIN LowerOf THEN LowerOf[t[i]] ELSE t[i]] :
                  t \in {s}} : TRUE

\* s.replace(a, b) for single characters a, b
Replace(s, a, b) ==
    CHOOSE r \in {[i \in 1..Len(t) |-> IF t[i] = a THEN b ELSE t[i]] : t \in {s}} : TRUE

\* Position of the first occurrence of character c in s, 0 when absent.
RECURSIVE FindFrom(_, _, _)
FindFrom(s, c, i) ==
    IF i > Len(s) THEN 0
    ELSE IF s[i] = c THEN i
    ELSE FindFrom(s, c, i + 1)

Find(s, c) == FindFrom(s, c, 1)

\* The concatenation of a sequence of strings.
RECURSIVE Concat(_)
Concat(ss) == IF ss = <<>> THEN <<>> ELSE Head(ss) \o Concat(Tail(ss))

\* All sequences over S of length at most n.
SeqUpTo(S, n) == UNION {[1..k -> S] : k \in 0..n}

(***************************************************************************)
(* String literals of the program.                                         *)
(***************************************************************************)
sOK == <<"O", "K">>
sNonCompliant == <<"N", "o", "n", "-", "c", "o", "m", "p", "l", "i", "a", "n", "t">>
\* Characters outside ASCII are written by code point: "u4e0d" is U+4E0D.
sBuHeGe == <<"u4e0d", "u5408", "u683c">>
sInfo == <<"I", "n", "f", "o">>
sShuoMing == <<"u8bf4", "u660e">>
sNSpaceA == <<"n", ".", " ", "a", ".">>
sNA == <<"n", ".", "a", ".">>

(***************************************************************************)
(* get_status_type, app.py 111-121.                                        *)
(***************************************************************************)
\* The tests for info and n.a. in the other order.
get_status_type_info_last(v) ==
    IF Contains(v, sOK) THEN "ok"
    ELSE IF Contains(v, sNonCompliant) \/ Contains(v, sBuHeGe) THEN "noncompliant"
    ELSE IF Contains(v, sNSpaceA) \/ Contains(v, sNA) THEN "na"
    ELSE IF Contains(v, sInfo) \/ Contains(v, sShuoMing) THEN "info"
    ELSE "other"

get_status_type(v) ==
    IF Contains(v, sOK) THEN "ok"
    ELSE IF Contains(v, sNonCompliant) \/ Contains(v, sBuHeGe) THEN "noncompliant"
    ELSE IF Contains(v, sInfo) \/ Contains(v, sShuoMing) THEN "info"
    ELSE IF Contains(v, sNSpaceA) \/ Contains(v, sNA) THEN "na"
    ELSE "other"

(***************************************************************************)
(* get_color_class, app.py 98-108.                                         *)
(***************************************************************************)
get_color_class_na_first(v) ==
    IF Contains(v, sOK) THEN "status-ok"
    ELSE IF Contains(v, sNonCompliant) \/ Contains(v, sBuHeGe) THEN "status-noncompliant"
    ELSE IF Contains(v, sNSpaceA) \/ Contains(v, sNA) THEN "status-na"
    ELSE IF Contains(v, sInfo) \/ Contains(v, sShuoMing) THEN "status-info"
    ELSE ""

get_color_class(v) ==
    IF Contains(v, sOK) THEN "status-ok"
    ELSE IF Contains(v, sNonCompliant) \/ Contains(v, sBuHeGe) THEN "status-noncompliant"
    ELSE IF Contains(v, sInfo) \/ Contains(v, sShuoMing) THEN "status-info"
    ELSE IF Contains(v, sNSpaceA) \/ Contains(v, sNA) THEN "status-na"
    ELSE ""

(***************************************************************************)
(* More literals: column names, row types, label heuristics.               *)
(***************************************************************************)
sID == <<"I", "D">>
sType == <<"T", "y", "p", "e">>
sLabel == <<"L", "a", "b", "e", "l">>
sPrimary == <<"P", "r", "i", "m", "a", "r", "y">>
sSecondary == <<"S", "e", "c", "o", "n", "d", "a", "r", "y">>
sNote == <<"N", "o", "t", "e">>
sMedia == <<"M", "e", "d", "i", "a">>
sSection == <<"s", "e", "c", "t", "i", "o", "n">>
sCategory == <<"c", "a", "t", "e", "g", "o", "r", "y">>
sLocation == <<"l", "o", "c", "a", "t", "i", "o", "n">>
sDiDian == <<"u5730", "u70b9">>
sTitle == <<"t", "i", "t", "l", "e">>
sBiaoTiYe == <<"u6807", "u9898", "u9875">>
sMachineDesignation ==
    <<"m", "a", "c", "h", "i", "n", "e", " ", "d", "e", "s", "i", "g", "n", "a", "t", "i", "o", "n">>
sJiQiMingCheng == <<"u673a", "u5668", "u540d", "u79f0">>
sEllipsis == <<".", ".", ".">>

Range(f) == {f[i] : i \in DOMAIN f}

\* [f(x) for x in s]
Map(f(_), s) == [i \in 1..Len(s) |-> f(s[i])]

(***************************************************************************)
(* read_csv_data, app.py 16-60.  A CSV file is the sequence of rows        *)
(* csv.reader yields, a row the sequence of its cells.                     *)
(***************************************************************************)

\* The row the first loop breaks at (35-38); 0 when the reader runs out.
RECURSIVE HeaderIndexFrom(_, _)
HeaderIndexFrom(rows, i) ==
    IF i > Len(rows) THEN 0
    ELSE IF rows[i] # <<>> /\ rows[i][1] = sID THEN i
    ELSE HeaderIndexFrom(rows, i + 1)

HeaderIndex(rows) == HeaderIndexFrom(rows, 1)

\* metadata[key] = value of the rows before the header with two cells or
\* more (41-44); a later row overwrites an earlier one with the same key.
Metadata(rows) ==
    LET h == HeaderIndex(rows)
        last == IF h = 0 THEN Len(rows) ELSE h - 1
        metaRows == {i \in 1..last : Len(rows[i]) >= 2}
        lastOf(k) == CHOOSE i \in metaRows :
                         /\ rows[i][1] = k
                         /\ \A j \in metaRows : rows[j][1] = k => j <= i
    IN [k \in {rows[i][1] : i \in metaRows} |-> rows[lastOf(k)][2]]

\* The dict lines 51-56 build: one key per header column, the cell at the
\* column's position or '' when the row is shorter.  A column name that
\* occurs twice keeps the value of its last position.
\* The dict without the else branch of lines 55-56: a column the row
\* does not reach gets no key.
MakeItem_unpadded(header, row) ==
    [col \in {header[i] : i \in {j \in DOMAIN header : j <= Len(row)}} |->
        LET i == CHOOSE i \in DOMAIN header :
                     /\ i <= Len(row)
                     /\ header[i] = col
                     /\ \A j \in DOMAIN header :
                            (j <= Len(row) /\ header[j] = col) => j <= i
        IN row[i]]

MakeItem(header, row) ==
    [col \in Range(header) |->
        LET i == CHOOSE i \in DOMAIN header :
                     /\ header[i] = col
                     /\ \A j \in DOMAIN header : header[j] = col => j <= i
        IN IF i <= Len(row) THEN row[i] ELSE <<>>]

RECURSIVE ItemsFrom(_, _, _)
ItemsFrom(header, rows, i) ==
    IF i > Len(rows) THEN <<>>
    ELSE IF rows[i] = <<>> \/ rows[i][1] = <<>> THEN ItemsFrom(header, rows, i + 1)
    ELSE <<MakeItem(header, rows[i])>> \o ItemsFrom(header, rows, i + 1)

\* The subscripts read_csv_data evaluates, each as <<position, length>>
\* under the conditions that guard it: row[0] at line 35 after `not row`
\* (31), row[0] and row[1] at 42-43 after len(row) >= 2 (41), row[0] at 48
\* after `not row` (48), row[i] at 54 after i < len(row) (53).  header is
\* read at 52 only inside the second loop, which has no row to run on when
\* the first loop ended without binding it.
Subscripts(rows) ==
    LET h == HeaderIndex(rows)
        last == IF h = 0 THEN Len(rows) ELSE h
    IN {<<1, Len(rows[i])>> : i \in {j \in 1..last : rows[j] # <<>>}}
       \cup {<<2, Len(rows[i])>> :
                i \in {j \in 1..last : j # h /\ Len(rows[j]) >= 2}}
       \cup (IF h = 0 THEN {}
             ELSE {<<1, Len(rows[i])>> :
                      i \in {j \in (h + 1)..Len(rows) : rows[j] # <<>>}}
                  \cup UNION {{<<p, Len(rows[i])>> :
                                  p \in {q \in DOMAIN rows[h] : q <= Len(rows[i])}} :
                              i \in {j \in (h + 1)..Len(rows) :
                                        rows[j] # <<>> /\ rows[j][1] # <<>>}})

\* A subscript beyond the row raises IndexError.
LoaderRaises(rows) == \E a \in Subscripts(rows) : a[1] > a[2]

read_csv_data(rows) ==
    LET h == HeaderIndex(rows)
    IN [metadata |-> Metadata(rows),
        items |-> IF h = 0 THEN <<>> ELSE ItemsFrom(rows[h], rows, h + 1)]

(***************************************************************************)
(* parse_primary_value, app.py 85-95: <<option_id, display_value>>.        *)
(***************************************************************************)
parse_primary_value(primary) ==
    LET i == Find(primary, "|")
    IN IF i > 0
       THEN <<SubSeq(primary, 1, i - 1), SubSeq(primary, i + 1, Len(primary))>>
       ELSE <<<<>>, primary>>

(***************************************************************************)
(* is_item_answered, app.py 172-184.  item.get(k) of a missing key is      *)
(* None, which is as false as ''.                                          *)
(***************************************************************************)
Get(item, k) == IF k \in DOMAIN item THEN item[k] ELSE <<>>

\* Only the answer itself counts.
is_item_answered_primary_only(item) == Get(item, sPrimary) # <<>>

is_item_answered(item) ==
    \/ Get(item, sPrimary) # <<>>
    \/ Get(item, sSecondary) # <<>>
    \/ Get(item, sNote) # <<>>
    \/ Get(item, sMedia) # <<>>

(***************************************************************************)
(* organize_items_by_sections, app.py 187-213.  current_section is <<>>    *)
(* for None and <<section>> otherwise.                                     *)
(***************************************************************************)
RECURSIVE OrganizeFrom(_, _, _, _)
OrganizeFrom(its, i, secs, current_section) ==
    IF i > Len(its)
    THEN IF current_section # <<>> THEN secs \o current_section ELSE secs
    ELSE IF its[i][sType] = sSection
    THEN OrganizeFrom(its, i + 1,
                      IF current_section # <<>> THEN secs \o current_section ELSE secs,
                      <<[id |-> its[i][sID], label |-> its[i][sLabel], items |-> <<>>]>>)
    ELSE IF current_section # <<>>
    THEN OrganizeFrom(its, i + 1, secs,
                      <<[current_section[1] EXCEPT !.items = Append(@, its[i])]>>)
    ELSE OrganizeFrom(its, i + 1, secs, current_section)

\* The same loop without lines 210-211, which add the last section.
RECURSIVE OrganizeFrom_last_dropped(_, _, _, _)
OrganizeFrom_last_dropped(its, i, secs, current_section) ==
    IF i > Len(its)
    THEN secs
    ELSE IF its[i][sType] = sSection
    THEN OrganizeFrom_last_dropped(its, i + 1,
                      IF current_section # <<>> THEN secs \o current_section ELSE secs,
                      <<[id |-> its[i][sID], label |-> its[i][sLabel], items |-> <<>>]>>)
    ELSE IF current_section # <<>>
    THEN OrganizeFrom_last_dropped(its, i + 1, secs,
                      <<[current_section[1] EXCEPT !.items = Append(@, its[i])]>>)
    ELSE OrganizeFrom_last_dropped(its, i + 1, secs, current_section)

organize_items_by_sections_last_dropped(its) ==
    OrganizeFrom_last_dropped(its, 1, <<>>, <<>>)

organize_items_by_sections(its) == OrganizeFrom(its, 1, <<>>, <<>>)

\* item['Type'] (198) of a row without that column, or item['Label'] (203)
\* of a section row without it, raises KeyError.
OrganizeRaises(its) ==
    \E i \in 1..Len(its) :
        \/ sType \notin DOMAIN its[i]
        \/ its[i][sType] = sSection /\ sLabel \notin DOMAIN its[i]

(***************************************************************************)
(* generate_html_report, app.py 226-1325: the navigation panel (959-1021)  *)
(* and the body (1025-1170).  A rendered entry keeps, beside what is       *)
(* written into the HTML, the section index or item it was rendered from   *)
(* (src).                                                                  *)
(***************************************************************************)
TocSectionChars == 50
TocItemChars == 60

\* s[:n] + ('...' if len(s) > n else '')
Truncate(s, n) == IF Len(s) > n THEN SubSeq(s, 1, n) \o sEllipsis ELSE s

\* The location test of lines 1066, 1109, 1118, 1129.
IsLocationLabel(label) ==
    Contains(Lower(label), sLocation) \/ Contains(label, sDiDian)

\* The list comprehension of lines 971-972 and 1028-1029.
AnsweredItems(section) ==
    SelectSeq(section.items,
              LAMBDA item : item[sType] # sCategory /\ is_item_answered(item))

\* Lines 989-1001: <<status_type, status_label>> of a navigation entry.
TocStatus(item) ==
    IF item[sPrimary] # <<>>
    THEN LET status_type == get_status_type(parse_primary_value(item[sPrimary])[2])
         IN <<status_type,
              CASE status_type = "ok" -> "OK"
                [] status_type = "noncompliant" -> "NC"
                [] status_type = "info" -> "Info"
                [] status_type = "na" -> "n.a."
                [] OTHER -> "u2014">>
    ELSE <<"other", "u2014">>

\* Lines 1003-1012: one navigation entry.
TocItem(item) ==
    [src |-> item,
     target |-> Replace(item[sID], "-", "_"),
     status_type |-> TocStatus(item)[1],
     status_label |-> TocStatus(item)[2],
     label |-> Truncate(item[sLabel], TocItemChars)]

\* The inner loop of lines 984-1012.
TocItems(section) ==
    Map(TocItem,
        SelectSeq(section.items,
                  LAMBDA item : ~(item[sType] = sCategory \/ ~is_item_answered(item))))

\* The outer loop of lines 969-1017.
RECURSIVE TocFrom(_, _)
TocFrom(secs, k) ==
    IF k > Len(secs) THEN <<>>
    ELSE IF AnsweredItems(secs[k]) = <<>> THEN TocFrom(secs, k + 1)
    ELSE <<[src |-> k,
            target |-> Replace(secs[k].id, "-", "_"),
            title |-> Truncate(secs[k].label, TocSectionChars),
            items |-> TocItems(secs[k])]>> \o TocFrom(secs, k + 1)

RenderToc(secs) == TocFrom(secs, 1)

\* item['Primary'] (991) or item['Label'] (1005) of a listed item without
\* that column raises KeyError.
TocRaises(secs) ==
    \E k \in 1..Len(secs) :
        /\ AnsweredItems(secs[k]) # <<>>
        /\ \E i \in 1..Len(secs[k].items) :
              LET item == secs[k].items[i]
              IN /\ item[sType] # sCategory
                 /\ is_item_answered(item)
                 /\ ~({sPrimary, sLabel} \subseteq DOMAIN item)

\* s.split(c)
RECURSIVE Split(_, _)
Split(s, c) ==
    LET i == Find(s, c)
    IN IF i = 0 THEN <<s>>
       ELSE <<SubSeq(s, 1, i - 1)>> \o Split(SubSeq(s, i + 1, Len(s)), c)

IsSpace(c) == c \in {" ", "\t", "\n", "\r"}

\* s.strip()
RECURSIVE Strip(_)
Strip(s) ==
    IF s = <<>> THEN s
    ELSE IF IsSpace(s[1]) THEN Strip(Tail(s))
    ELSE IF IsSpace(s[Len(s)]) THEN Strip(SubSeq(s, 1, Len(s) - 1))
    ELSE s

\* Lines 1078 and 1141: the image identifiers of a Media cell.
ImageIds(media) ==
    Map(Strip, SelectSeq(Split(media, ";"), LAMBDA img_id : Strip(img_id) # <<>>))

\* Lines 1076-1079.
PhotoCount(item) == IF item[sMedia] # <<>> THEN Len(ImageIds(item[sMedia])) ELSE 0

\* Line 1037.
IsTitlePage(section) ==
    Contains(Lower(section.label), sTitle) \/ Contains(section.label, sBiaoTiYe)

\* The test of the comprehension of line 1049.
IsMachineLabel(item) ==
    \/ Contains(Lower(Get(item, sLabel)), sMachineDesignation)
    \/ Contains(Get(item, sLabel), sJiQiMingCheng)

\* The display order with the machine items in front and every item, the
\* machine items again, behind them: line 1050 without its condition.
DisplayOrder_machine_repeated(section) ==
    LET all == [i \in 1..Len(section.items) |-> i]
    IN IF IsTitlePage(section)
       THEN SelectSeq(all, LAMBDA i : IsMachineLabel(section.items[i])) \o all
       ELSE all

\* Lines 1047-1051 on the places of the items in section['items']: the
\* places of machine_items followed by the places of other_items.  Equal
\* dicts count as the same item for `not in`.
DisplayOrder(section) ==
    LET all == [i \in 1..Len(section.items) |-> i]
        machine == SelectSeq(all, LAMBDA i : IsMachineLabel(section.items[i]))
        machine_items == {section.items[i] : i \in Range(machine)}
        other == SelectSeq(all, LAMBDA i : section.items[i] \notin machine_items)
    IN IF IsTitlePage(section) THEN machine \o other ELSE all

\* items_to_display, lines 1047-1051.
ItemsToDisplay(section) ==
    LET order == DisplayOrder(section)
    IN [n \in 1..Len(order) |-> section.items[order[n]]]

(***************************************************************************)
(* format_timestamp, app.py 63-69.                                         *)
(***************************************************************************)
\* The decimal digits int() accepts, with their values: the ASCII digits
\* and, for the digits of other scripts, U+0663 ARABIC-INDIC DIGIT THREE.
DecimalValue ==
    [c \in {"0", "1", "2", "3", "4", "5", "6", "7", "8", "9", "u0663"} |->
        CASE c = "0" -> 0 [] c = "1" -> 1 [] c = "2" -> 2 [] c = "3" -> 3
          [] c = "4" -> 4 [] c = "5" -> 5 [] c = "6" -> 6 [] c = "7" -> 7
          [] c = "8" -> 8 [] c = "9" -> 9 [] c = "u0663" -> 3]

\* str.isdigit(): true of the decimal digits and of digits that are not
\* decimal, such as U+00B2 SUPERSCRIPT TWO; false of the empty string.
IsDigit(s) ==
    s # <<>> /\ \A i \in 1..Len(s) : s[i] \in DOMAIN DecimalValue \cup {"u00b2"}

\* int(s) of line 66 succeeds: after the surrounding whitespace, decimal
\* digits only.  (Signs and underscores, which int() also takes, do not
\* pass the isdigit() test of line 1105, the only caller.)
IntParses(s) ==
    Strip(s) # <<>> /\ \A i \in 1..Len(Strip(s)) : Strip(s)[i] \in DOMAIN DecimalValue

\* The value of a digit string as <<days, seconds of the day>> since the
\* epoch.
RECURSIVE EpochFrom(_, _, _, _)
EpochFrom(t, i, days, secs) ==
    IF i > Len(t) THEN <<days, secs>>
    ELSE LET n == secs * 10 + DecimalValue[t[i]]
         IN EpochFrom(t, i + 1, days * 10 + n \div 86400, n % 86400)

\* <<year, month, day>> of the proleptic Gregorian calendar, days counted
\* from 1970-01-01.
CivilFromDays(days) ==
    LET z == days + 719468
        era == z \div 146097
        doe == z - era * 146097
        yoe == (doe - doe \div 1460 + doe \div 36524 - doe \div 146096) \div 365
        doy == doe - (365 * yoe + yoe \div 4 - yoe \div 100)
        mp == (5 * doy + 2) \div 153
        d == doy - (153 * mp + 2) \div 5 + 1
        m == IF mp < 10 THEN mp + 3 ELSE mp - 9
    IN <<yoe + era * 400 + (IF m <= 2 THEN 1 ELSE 0), m, d>>

DigitChar(n) == <<"0", "1", "2", "3", "4", "5", "6", "7", "8", "9">>[n + 1]

\* %d, %m, %H, %M and %Y of strftime.
TwoDigits(n) == <<DigitChar(n \div 10), DigitChar(n % 10)>>
FourDigits(n) == TwoDigits(n \div 100) \o TwoDigits(n % 100)

\* strftime('%d.%m.%Y %H:%M') of datetime.fromtimestamp, in a process
\* whose local time is UTC.
FormatEpoch(t) ==
    LET e == EpochFrom(t, 1, 0, 0)
        ymd == CivilFromDays(e[1])
    IN TwoDigits(ymd[3]) \o <<".">> \o TwoDigits(ymd[2]) \o <<".">>
       \o FourDigits(ymd[1]) \o <<" ">>
       \o TwoDigits(e[2] \div 3600) \o <<":">> \o TwoDigits((e[2] % 3600) \div 60)

\* A string int() rejects is returned as it is (ValueError, 68-69).
format_timestamp(timestamp_str) ==
    IF IntParses(timestamp_str) THEN FormatEpoch(Strip(timestamp_str))
    ELSE timestamp_str

\* format_timestamp called on whatever display value there is, without the
\* test of line 1105.
FormattedValue_always(display_value) == format_timestamp(display_value)

\* Lines 1105-1106.
FormattedValue(display_value) ==
    IF IsDigit(Strip(display_value)) /\ Len(Strip(display_value)) = 10
    THEN format_timestamp(display_value)
    ELSE display_value

\* Lines 1101-1113, the value block of a body item: none when Primary is
\* empty.  Lines 1109-1110 are never reached with a location label, whose
\* items line 1066 has skipped.
ValueBlock(item) ==
    IF item[sPrimary] # <<>>
    THEN LET display_value == FormattedValue(parse_primary_value(item[sPrimary])[2])
         IN <<[color_class |-> get_color_class(display_value), text |-> display_value]>>
    ELSE <<>>

(***************************************************************************)
(* format_text_with_chinese_red, app.py 124-142.  The opening and the      *)
(* closing tag of the span are one element each.                           *)
(***************************************************************************)
\* [\u4e00-\u9fff] among the characters of the model
IsIdeograph(c) ==
    c \in {"u4e0d", "u5408", "u683c", "u8bf4", "u660e", "u5730", "u70b9", "u6807",
           "u9898", "u9875", "u673a", "u5668", "u540d", "u79f0"}

\* The character class of line 131: ideographs, \d, the full-width
\* punctuation, the double quote, U+30FB and \s.
InChinesePattern(c) ==
    \/ IsIdeograph(c)
    \/ c \in DOMAIN DecimalValue
    \/ c \in {"uff0c", "u3002", "u3001", "uff1a", "uff1b", "uff01", "uff1f", "uff08",
               "uff09", "u3010", "u3011", "u300a", "u300b", "\"", "u30fb"}
    \/ IsSpace(c)

\* The last position of the match that starts at i.
RECURSIVE MatchEnd(_, _)
MatchEnd(text, i) ==
    IF i < Len(text) /\ InChinesePattern(text[i + 1]) THEN MatchEnd(text, i + 1) ELSE i

RECURSIVE ChineseRedFrom(_, _)
ChineseRedFrom(text, i) ==
    IF i > Len(text) THEN <<>>
    ELSE IF ~InChinesePattern(text[i]) THEN <<text[i]>> \o ChineseRedFrom(text, i + 1)
    ELSE LET j == MatchEnd(text, i)
             matched_text == SubSeq(text, i, j)
         IN (IF \E k \in i..j : IsIdeograph(text[k])
             THEN <<"<span>">> \o matched_text \o <<"</span>">>
             ELSE matched_text)
            \o ChineseRedFrom(text, j + 1)

format_text_with_chinese_red(text) == ChineseRedFrom(text, 1)

\* The notes block with Secondary tested before Note.
NotesBlock_secondary_first(item) ==
    IF item[sSecondary] # <<>> /\ item[sSecondary] # item[sPrimary]
    THEN <<format_text_with_chinese_red(item[sSecondary])>>
    ELSE IF item[sNote] # <<>>
    THEN <<format_text_with_chinese_red(item[sNote])>>
    ELSE <<>>

\* Lines 1115-1137, the notes blocks of a body item.  is_location is
\* false of every item the loop has not skipped at line 1066.
NotesBlock(item) ==
    IF item[sNote] # <<>>
    THEN <<format_text_with_chinese_red(item[sNote])>>
    ELSE IF item[sSecondary] # <<>> /\ item[sSecondary] # item[sPrimary]
    THEN <<format_text_with_chinese_red(item[sSecondary])>>
    ELSE <<>>

(***************************************************************************)
(* The images, app.py 72-82 and 1140-1163.  The files of a folder are a    *)
(* function from the paths that exist, <<stem, extension>>, to whether     *)
(* the file can be opened and read.                                        *)
(***************************************************************************)
ImageExtensions == <<".jpg", ".jpeg", ".png">>

\* Lines 1148-1153: <<>> for None.
ImagePath(files, img_id) ==
    LET found == SelectSeq(ImageExtensions,
                           LAMBDA ext : <<img_id, ext>> \in DOMAIN files)
    IN IF found = <<>> THEN <<>> ELSE << <<img_id, found[1]>> >>

\* get_image_base64 without the try block's fallback: a data URI whatever
\* open() did.
get_image_base64_unchecked(files, image_path) ==
    <<[mime_type |-> IF image_path[2] \in {".jpg", ".jpeg"}
                     THEN "image/jpeg" ELSE "image/png",
       data |-> image_path]>>

\* get_image_base64: <<>> for '', the result when open() or read() raised;
\* otherwise the data URI of the file's content.
get_image_base64(files, image_path) ==
    IF image_path \in DOMAIN files /\ files[image_path]
    THEN <<[mime_type |-> IF image_path[2] \in {".jpg", ".jpeg"}
                          THEN "image/jpeg" ELSE "image/png",
            data |-> image_path]>>
    ELSE <<>>

\* Lines 1146-1161: the image elements of a grid.
RECURSIVE ImageElementsFrom(_, _, _)
ImageElementsFrom(files, image_ids, n) ==
    IF n > Len(image_ids) THEN <<>>
    ELSE LET img_path == ImagePath(files, image_ids[n])
             img_base64 == IF img_path # <<>>
                           THEN get_image_base64(files, img_path[1])
                           ELSE <<>>
         IN (IF img_base64 # <<>>
             THEN <<[src |-> img_base64[1], alt |-> image_ids[n]]>>
             ELSE <<>>)
            \o ImageElementsFrom(files, image_ids, n + 1)

\* Lines 1140-1163: <<>> when no grid is emitted, else <<its elements>>.
ImagesGrid(files, item) ==
    IF item[sMedia] # <<>> /\ ImageIds(item[sMedia]) # <<>>
    THEN <<ImageElementsFrom(files, ImageIds(item[sMedia]), 1)>>
    ELSE <<>>

\* Lines 1069-1073: the data-status of a body item.
BodyStatus(item) ==
    IF item[sPrimary] # <<>>
    THEN get_status_type(parse_primary_value(item[sPrimary])[2])
    ELSE "other"

\* The skips without lines 1061-1063, the test for unanswered items.
BodySkips_unanswered_kept(item) ==
    \/ item[sType] = sCategory
    \/ IsLocationLabel(Get(item, sLabel))

\* The skips with the location test applied to the label as written,
\* without lower().
BodySkips_case_sensitive(item) ==
    \/ item[sType] = sCategory
    \/ ~is_item_answered(item)
    \/ Contains(Get(item, sLabel), sLocation)
    \/ Contains(Get(item, sLabel), sDiDian)

\* The three skips of the body loop, lines 1057-1067.
BodySkips(item) ==
    \/ item[sType] = sCategory
    \/ ~is_item_answered(item)
    \/ IsLocationLabel(Get(item, sLabel))

\* Lines 1083-1092 with line 1086 left out: an item with many photos keeps
\* the counter.
PageBreak_many_keeps_count(photo_count, small_items_count) ==
    IF photo_count >= 5 THEN <<"page-break-after", small_items_count>>
    ELSE IF small_items_count + 1 >= 2 THEN <<"page-break-after-small", 0>>
    ELSE <<"", small_items_count + 1>>

\* Lines 1083-1092 with line 1092 left out: the second small item keeps
\* the counter.
PageBreak_small_keeps_count(photo_count, small_items_count) ==
    IF photo_count >= 5 THEN <<"page-break-after", 0>>
    ELSE IF small_items_count + 1 >= 2
    THEN <<"page-break-after-small", small_items_count + 1>>
    ELSE <<"", small_items_count + 1>>

\* Lines 1081-1092: <<page_break_class, small_items_count afterwards>>.
PageBreak(photo_count, small_items_count) ==
    IF photo_count >= 5 THEN <<"page-break-after", 0>>
    ELSE IF small_items_count + 1 >= 2 THEN <<"page-break-after-small", 0>>
    ELSE <<"", small_items_count + 1>>

\* The item loop of lines 1056-1166 over the places order[i..] of the
\* section's items, small being small_items_count.  An element keeps the
\* place of its item (pos) and the counter after it.
RECURSIVE BodyItemsFrom(_, _, _, _, _)
BodyItemsFrom(files, section, order, i, small) ==
    IF i > Len(order) THEN <<>>
    ELSE IF BodySkips(section.items[order[i]])
    THEN BodyItemsFrom(files, section, order, i + 1, small)
    ELSE LET item == section.items[order[i]]
             break == PageBreak(PhotoCount(item), small)
         IN <<[src |-> item,
               pos |-> order[i],
               id |-> Replace(item[sID], "-", "_"),
               status |-> BodyStatus(item),
               page_break_class |-> break[1],
               small_items_count |-> break[2],
               label |-> item[sLabel],
               value |-> ValueBlock(item),
               notes |-> NotesBlock(item),
               images |-> ImagesGrid(files, item)]>>
            \o BodyItemsFrom(files, section, order, i + 1, break[2])

\* The section loop of lines 1026-1170.
RECURSIVE BodyFrom(_, _, _)
BodyFrom(files, secs, k) ==
    IF k > Len(secs) THEN <<>>
    ELSE IF AnsweredItems(secs[k]) = <<>> THEN BodyFrom(files, secs, k + 1)
    ELSE <<[src |-> k,
            id |-> Replace(secs[k].id, "-", "_"),
            title_page |-> IsTitlePage(secs[k]),
            label |-> secs[k].label,
            items |-> BodyItemsFrom(files, secs[k], DisplayOrder(secs[k]), 1, 0)]>>
         \o BodyFrom(files, secs, k + 1)

\* files: what csv_dir holds.
RenderBody(files, secs) == BodyFrom(files, secs, 1)

\* A rendered item without one of the columns lines 1071-1140 index raises
\* KeyError; item['Secondary'] (1127) is reached only when Note is empty.
BodyRaises(secs) ==
    \E k \in 1..Len(secs) :
        /\ AnsweredItems(secs[k]) # <<>>
        /\ \E i \in 1..Len(secs[k].items) :
              LET item == secs[k].items[i]
              IN /\ ~BodySkips(item)
                 /\ \/ ~({sPrimary, sMedia, sLabel, sNote} \subseteq DOMAIN item)
                    \/ item[sNote] = <<>> /\ sSecondary \notin DOMAIN item

(***************************************************************************)
(* main, app.py 1353-1402, and the steps of generate_html_report.  An      *)
(* audit folder holds no CSV file, or one: its base name (which names the  *)
(* output path, 1385-1386), whether it can be opened and decoded, and its  *)
(* rows.                                                                   *)
(***************************************************************************)
CurrentFolder == folders[fidx]

\* Line 1386: the output path is named after the CSV file.
OutputPath == CurrentFolder.name

\* Lines 1362-1370: without audit folders main exits with status 1.
MainStart ==
    /\ mpc = "start"
    /\ mpc' = IF folders = <<>> THEN "exit" ELSE "for"
    /\ UNCHANGED <<folders, fidx, attempts, gpc, items, sections, toc, body, outputs>>
    /\ UNCHANGED <<classifyVars, browserVars>>

\* Lines 1373-1393: the next folder; one without a CSV file is skipped
\* (1380-1382), otherwise generate_html_report is called.
MainFor ==
    /\ mpc = "for"
    /\ fidx < Len(folders)
    /\ fidx' = fidx + 1
    /\ IF folders[fidx + 1].has_csv
       THEN /\ mpc' = "call"
            /\ gpc' = "load"
            /\ attempts' = [attempts EXCEPT ![fidx + 1] = @ + 1]
       ELSE UNCHANGED <<mpc, gpc, attempts>>
    /\ UNCHANGED <<folders, items, sections, toc, body, outputs>>
    /\ UNCHANGED <<classifyVars, browserVars>>

\* Lines 1400-1402: the loop is over.
MainEnd ==
    /\ mpc = "for"
    /\ fidx = Len(folders)
    /\ mpc' = "done"
    /\ UNCHANGED <<folders, fidx, attempts, gpc, items, sections, toc, body, outputs>>
    /\ UNCHANGED <<classifyVars, browserVars>>

\* Line 231: read_csv_data; open() or the decoder raises on a file that
\* cannot be read, a subscript out of range raises IndexError.
GenLoad ==
    /\ gpc = "load"
    /\ IF CurrentFolder.readable /\ ~LoaderRaises(CurrentFolder.rows)
       THEN /\ items' = read_csv_data(CurrentFolder.rows).items
            /\ gpc' = "organize"
       ELSE /\ gpc' = "raised"
            /\ UNCHANGED items
    /\ UNCHANGED <<folders, fidx, mpc, attempts, sections, toc, body, outputs>>
    /\ UNCHANGED <<classifyVars, browserVars>>

\* Line 234.
GenOrganize ==
    /\ gpc = "organize"
    /\ IF OrganizeRaises(items)
       THEN /\ gpc' = "raised"
            /\ UNCHANGED sections
       ELSE /\ sections' = organize_items_by_sections(items)
            /\ gpc' = "toc"
    /\ UNCHANGED <<folders, fidx, mpc, attempts, items, toc, body, outputs>>
    /\ UNCHANGED <<classifyVars, browserVars>>

\* Lines 959-1023.
GenToc ==
    /\ gpc = "toc"
    /\ IF TocRaises(sections)
       THEN /\ gpc' = "raised"
            /\ UNCHANGED toc
       ELSE /\ toc' = RenderToc(sections)
            /\ gpc' = "body"
    /\ UNCHANGED <<folders, fidx, mpc, attempts, items, sections, body, outputs>>
    /\ UNCHANGED <<classifyVars, browserVars>>

\* The body step of a renderer that writes the document as it goes.
GenBody_streams ==
    /\ gpc = "body"
    /\ outputs' = [outputs EXCEPT ![OutputPath] = <<[toc |-> toc, body |-> <<>>]>>]
    /\ IF BodyRaises(sections)
       THEN /\ gpc' = "raised"
            /\ UNCHANGED body
       ELSE /\ body' = RenderBody(CurrentFolder.files, sections)
            /\ gpc' = "write"
    /\ UNCHANGED <<folders, fidx, mpc, attempts, items, sections, toc>>
    /\ UNCHANGED <<classifyVars, browserVars>>

\* Lines 1025-1170.
GenBody ==
    /\ gpc = "body"
    /\ IF BodyRaises(sections)
       THEN /\ gpc' = "raised"
            /\ UNCHANGED body
       ELSE /\ body' = RenderBody(CurrentFolder.files, sections)
            /\ gpc' = "write"
    /\ UNCHANGED <<folders, fidx, mpc, attempts, items, sections, toc, outputs>>
    /\ UNCHANGED <<classifyVars, browserVars>>

\* Lines 1321-1325: the document is written to the output path.
GenWrite ==
    /\ gpc = "write"
    /\ outputs' = [outputs EXCEPT ![OutputPath] = <<[toc |-> toc, body |-> body]>>]
    /\ gpc' = "returned"
    /\ UNCHANGED <<folders, fidx, mpc, attempts, items, sections, toc, body>>
    /\ UNCHANGED <<classifyVars, browserVars>>

\* Line 1394: the call returned; its locals are gone.
MainReturn ==
    /\ mpc = "call"
    /\ gpc = "returned"
    /\ mpc' = "for"
    /\ gpc' = "idle"
    /\ items' = <<>> /\ sections' = <<>> /\ toc' = <<>> /\ body' = <<>>
    /\ UNCHANGED <<folders, fidx, attempts, outputs>>
    /\ UNCHANGED <<classifyVars, browserVars>>

\* The call without the try block: the exception ends main.
MainExcept_uncaught ==
    /\ mpc = "call"
    /\ gpc = "raised"
    /\ mpc' = "aborted"
    /\ gpc' = "idle"
    /\ items' = <<>> /\ sections' = <<>> /\ toc' = <<>> /\ body' = <<>>
    /\ UNCHANGED <<folders, fidx, attempts, outputs>>
    /\ UNCHANGED <<classifyVars, browserVars>>

\* Lines 1395-1396: the exception is caught and the loop goes on.
MainExcept ==
    /\ mpc = "call"
    /\ gpc = "raised"
    /\ mpc' = "for"
    /\ gpc' = "idle"
    /\ items' = <<>> /\ sections' = <<>> /\ toc' = <<>> /\ body' = <<>>
    /\ UNCHANGED <<folders, fidx, attempts, outputs>>
    /\ UNCHANGED <<classifyVars, browserVars>>

Next ==
    \/ MainStart
    \/ MainFor
    \/ MainEnd
    \/ GenLoad
    \/ GenOrganize
    \/ GenToc
    \/ GenBody
    \/ GenWrite
    \/ MainReturn
    \/ MainExcept

(***************************************************************************)
(* The inputs.                                                             *)
(***************************************************************************)
FullHeader == <<sID, sType, sLabel, sPrimary, sSecondary, sNote, sMedia>>
HeaderNoType == <<sID, sLabel, sPrimary>>
HeaderNoPrimary == <<sID, sType, sLabel, sNote>>
HeaderNoMedia == <<sID, sType, sLabel, sPrimary, sSecondary, sNote>>

tItem == <<"i", "t", "e", "m">>
lCheck == <<"C", "h", "e", "c", "k">>

RowTitlePage ==
    << <<"s", "-", "1">>, sSection, <<"T", "i", "t", "l", "e", " ", "P", "a", "g", "e">>,
       <<>>, <<>>, <<>>, <<>> >>
RowChecks ==
    << <<"s", "2">>, sSection, <<"C", "h", "e", "c", "k", "s">>, <<>>, <<>>, <<>>, <<>> >>
RowMachine ==
    << <<"a", "-", "1">>, tItem,
       <<"M", "a", "c", "h", "i", "n", "e", " ", "d", "e", "s", "i", "g", "n", "a", "t", "i", "o", "n">>,
       <<"1", "|", "O", "K">>, <<>>, <<>>, <<>> >>
RowUnanswered == << <<"b">>, tItem, lCheck, <<>>, <<>>, <<>>, <<>> >>
RowCategory ==
    << <<"c">>, sCategory, <<"G", "r", "o", "u", "p">>, <<"1", "|", "O", "K">>, <<>>, <<>>, <<>> >>
RowLocation ==
    << <<"d", "-", "4">>, tItem, <<"L", "o", "c", "a", "t", "i", "o", "n">>,
       <<"|", "3", "0", ".", "9", ";", "1", "2", "1", ".", "2">>, <<>>, <<>>, <<>> >>
RowNoteOnly == << <<"e">>, tItem, lCheck, <<>>, <<>>, <<"b", "a", "d">>, <<>> >>
RowNonCompliant ==
    << <<"f", "-", "2">>, tItem, lCheck,
       <<"2", "|", "N", "o", "n", "-", "c", "o", "m", "p", "l", "i", "a", "n", "t">>,
       <<>>, <<>>, <<"i", "m", "g", "1", ";", "i", "m", "g", "2">> >>
\* A short row: the loader pads it.
RowInfoShort == << <<"g">>, tItem, lCheck, <<"I", "n", "f", "o", " ", "n", ".", "a", ".">> >>

RowPool ==
    { RowTitlePage, RowChecks, RowMachine, RowUnanswered, RowCategory, RowLocation,
      RowNoteOnly, RowNonCompliant, RowInfoShort }

MetaRow == << <<"a", "u", "d", "i", "t", "_", "t", "i", "t", "l", "e">>, <<"T">> >>

\* A folder without image files.
NoImages == <<>>

NoCsvFolder ==
    [has_csv |-> FALSE, name |-> "", readable |-> FALSE, rows |-> <<>>,
     files |-> NoImages]

CsvFolder(name, header, rows) ==
    [has_csv |-> TRUE, name |-> name, readable |-> TRUE,
     rows |-> <<MetaRow, <<>>, header>> \o rows, files |-> NoImages]

UnreadableFolder(name) ==
    [has_csv |-> TRUE, name |-> name, readable |-> FALSE, rows |-> <<>>,
     files |-> NoImages]

OutputNames == {"a", "b"}

MaxShortRows == 2

\* One audit folder: every file of at most MaxRows rows of the pool under
\* the full header, and the files that make a step raise.
SingleFolders ==
    {NoCsvFolder, UnreadableFolder("a")}
    \cup {CsvFolder("a", FullHeader, rs) : rs \in SeqUpTo(RowPool, MaxRows)}
    \cup {CsvFolder("a", h, rs) :
            h \in {HeaderNoType, HeaderNoPrimary, HeaderNoMedia},
            rs \in SeqUpTo(RowPool, MaxShortRows)}

InitMainWith(fs) ==
    /\ folders = fs
    /\ fidx = 0
    /\ mpc = "start"
    /\ attempts = [i \in 1..Len(fs) |-> 0]
    /\ gpc = "idle"
    /\ items = <<>> /\ sections = <<>> /\ toc = <<>> /\ body = <<>>
    /\ outputs = [n \in OutputNames |-> <<>>]

Init ==
    /\ \E fs \in {<<>>} \cup {<<f>> : f \in SingleFolders} : InitMainWith(fs)
    /\ NoClassify
    /\ NoBrowser

Spec == Init /\ [][Next]_vars

\* A run over several folders, two of which may share an output path.
BatchFolders ==
    { NoCsvFolder,
      UnreadableFolder("a"),
      CsvFolder("a", FullHeader, <<RowTitlePage, RowMachine>>),
      CsvFolder("a", FullHeader, <<RowChecks, RowLocation>>),
      CsvFolder("b", HeaderNoType, <<RowChecks>>),
      CsvFolder("a", HeaderNoPrimary, <<RowChecks, RowMachine>>),
      CsvFolder("a", HeaderNoMedia, <<RowChecks, RowNoteOnly>>) }

\* Line 1362, find_audit_folders: the audit folders of the script directory
\* in the order os.listdir gives them.
MainFind ==
    /\ mpc = "find"
    /\ \E fs \in SeqUpTo(BatchFolders, MaxFolders) :
          /\ folders' = fs
          /\ attempts' = [i \in 1..Len(fs) |-> 0]
    /\ mpc' = "start"
    /\ UNCHANGED <<fidx, gpc, items, sections, toc, body, outputs>>
    /\ UNCHANGED <<classifyVars, browserVars>>

InitMain ==
    /\ folders = <<>>
    /\ fidx = 0
    /\ mpc = "find"
    /\ attempts = <<>>
    /\ gpc = "idle"
    /\ items = <<>> /\ sections = <<>> /\ toc = <<>> /\ body = <<>>
    /\ outputs = [n \in OutputNames |-> <<>>]
    /\ NoClassify
    /\ NoBrowser

NextMain ==
    \/ MainFind
    \/ Next

\* main is one sequential process: while a step is possible, one is taken.
SpecMain == InitMain /\ [][NextMain]_vars /\ WF_vars(NextMain)

(***************************************************************************)
(* The loader on raw CSV files: rows of every shape before and after the   *)
(* header, under headers with and without a repeated column name.          *)
(***************************************************************************)
MaxRawRows == 4

cX == <<"x">>
cY == <<"y">>
cZ == <<"z">>

RawRowPool ==
    { <<>>,                          \* an empty line
      << <<>> >>,                    \* one empty cell
      << <<>>, cX >>,                \* an empty first cell
      << <<"i", "d">>, sNote >>,     \* not the sentinel: lower case
      << cX, sID >>,                 \* not the sentinel: second cell
      << sID, sNote >>,              \* a header
      << sID, sNote, sNote >>,       \* a header that repeats a column name
      << cX >>,                      \* shorter than either header
      << cX, cY >>,
      << cX, cY, cZ >>,
      << cX, cY, cZ, cX >> }         \* longer than either header

RawFolder(rows) ==
    [has_csv |-> TRUE, name |-> "a", readable |-> TRUE, rows |-> rows,
     files |-> NoImages]

RawFolders ==
    {NoCsvFolder, UnreadableFolder("a")}
    \cup {RawFolder(rs) : rs \in SeqUpTo(RawRowPool, MaxRawRows)}

InitLoad ==
    /\ \E f \in RawFolders : InitMainWith(<<f>>)
    /\ NoClassify
    /\ NoBrowser

SpecLoad == InitLoad /\ [][Next]_vars

(***************************************************************************)
(* Folders with image files: every choice of at most MaxImageFiles paths   *)
(* among the stems p, q under the three extensions, each file readable or  *)
(* not.                                                                    *)
(***************************************************************************)
MaxImageFiles == 3

ImageStems == {<<"p">>, <<"q">>}

ImagePaths == {<<stem, ImageExtensions[n]>> : stem \in ImageStems, n \in 1..3}

ImageStores ==
    UNION {[S -> BOOLEAN] :
             S \in {T \in SUBSET ImagePaths : Cardinality(T) <= MaxImageFiles}}

RowTwoImages ==
    << <<"h">>, tItem, lCheck, <<>>, <<>>, <<>>, <<"p", ";", " ", "q">> >>
RowOneImage ==
    << <<"i">>, tItem, lCheck, <<"1", "|", "O", "K">>, <<>>, <<>>, <<"q">> >>
\* A Media cell that holds no identifier.
RowBlankMedia ==
    << <<"j">>, tItem, lCheck, <<>>, <<>>, <<>>, <<" ", ";">> >>

ImageFiles ==
    { <<RowChecks, RowTwoImages>>, <<RowChecks, RowOneImage, RowTwoImages>>,
      <<RowChecks, RowBlankMedia>>, <<RowChecks, RowNonCompliant>> }

ImageFolders ==
    {NoCsvFolder, UnreadableFolder("a"), CsvFolder("a", HeaderNoType, <<RowChecks>>)}
    \cup {[CsvFolder("a", FullHeader, rs) EXCEPT !.files = st] :
            rs \in ImageFiles, st \in ImageStores}

InitImages ==
    /\ \E f \in ImageFolders : InitMainWith(<<f>>)
    /\ NoClassify
    /\ NoBrowser

SpecImages == InitImages /\ [][Next]_vars

(***************************************************************************)
(* Files for the page-break hints: items with fewer than five and with     *)
(* five photos, and items the body loop skips, in one or more sections.    *)
(***************************************************************************)
MaxPagingRows == 5

\* Five parts, four identifiers.
RowFourPhotos ==
    << <<"k">>, tItem, lCheck, <<>>, <<>>, <<>>,
       <<"a", ";", "b", ";", "c", ";", "d", ";", " ">> >>
\* Six parts, five identifiers.
RowFivePhotos ==
    << <<"l">>, tItem, lCheck, <<>>, <<>>, <<>>,
       <<"a", ";", "b", ";", ";", "c", ";", "d", ";", "e">> >>

PagingRowPool ==
    { RowChecks, RowNoteOnly, RowFourPhotos, RowFivePhotos, RowUnanswered,
      RowCategory, RowLocation }

PagingFolders ==
    {NoCsvFolder, UnreadableFolder("a")}
    \cup {CsvFolder("a", FullHeader, rs) : rs \in SeqUpTo(PagingRowPool, MaxPagingRows)}

InitPaging ==
    /\ \E f \in PagingFolders : InitMainWith(<<f>>)
    /\ NoClassify
    /\ NoBrowser

SpecPaging == InitPaging /\ [][Next]_vars

(***************************************************************************)
(* Files for the value and the notes block: one section of items whose     *)
(* Primary, Secondary and Note take the shapes the formatter tells apart.  *)
(***************************************************************************)
MaxFormatRows == 3

TextRow(id, primary, secondary, note) ==
    <<id, tItem, lCheck, primary, secondary, note, <<>> >>

tEpoch == <<"1", "7", "0", "0", "0", "0", "0", "0", "0", "0">>
tOptOK == <<"1", "|", "O", "K">>

FormatRowPool ==
    { \* ten digits, nine, eleven
      TextRow(<<"m">>, tEpoch, <<>>, <<>>),
      TextRow(<<"m">>, SubSeq(tEpoch, 1, 9), <<>>, <<>>),
      TextRow(<<"m">>, tEpoch \o <<"0">>, <<>>, <<>>),
      \* ten digits behind an option id, and between blanks
      TextRow(<<"m">>, <<"3", "|">> \o tEpoch, <<>>, <<>>),
      TextRow(<<"m">>, <<"3", "|", " ">> \o tEpoch \o <<" ">>, <<>>, <<>>),
      \* nine digits and a letter; nine digits and a blank inside
      TextRow(<<"m">>, SubSeq(tEpoch, 1, 8) \o <<"x", "0">>, <<>>, <<>>),
      TextRow(<<"m">>, SubSeq(tEpoch, 1, 5) \o <<" ">> \o SubSeq(tEpoch, 6, 9), <<>>, <<>>),
      \* ten digit characters, one of another script, one not decimal
      TextRow(<<"m">>, <<"u0663">> \o SubSeq(tEpoch, 2, 10), <<>>, <<>>),
      TextRow(<<"m">>, <<"u00b2">> \o SubSeq(tEpoch, 2, 10), <<>>, <<>>),
      \* Secondary equal to Primary, equal to its display half, alone
      TextRow(<<"n">>, tOptOK, tOptOK, <<>>),
      TextRow(<<"n">>, tOptOK, sOK, <<>>),
      TextRow(<<"n">>, <<>>, sOK, <<>>),
      \* Note beside a Secondary, Note alone
      TextRow(<<"n">>, tOptOK, sOK, <<"b", "a", "d", " ", "u4e0d", "u5408", "u683c">>),
      RowNoteOnly,
      \* neither
      RowMachine }

FormatFolders ==
    {NoCsvFolder, UnreadableFolder("a")}
    \cup {CsvFolder("a", FullHeader, <<RowChecks>> \o rs) :
            rs \in SeqUpTo(FormatRowPool, MaxFormatRows)}

InitFormat ==
    /\ \E f \in FormatFolders : InitMainWith(<<f>>)
    /\ NoClassify
    /\ NoBrowser

SpecFormat == InitFormat /\ [][Next]_vars

(***************************************************************************)
(* Files for the anchors: section and item rows whose IDs differ in the    *)
(* separator only, or not at all.                                          *)
(***************************************************************************)
MaxAnchorRows == 4

RowSectionUnderscore ==
    << <<"s", "_", "1">>, sSection, <<"C", "h", "e", "c", "k", "s">>, <<>>, <<>>, <<>>, <<>> >>

AnchorRowPool ==
    { RowTitlePage, RowSectionUnderscore, RowChecks,
      TextRow(<<"a", "-", "1">>, tOptOK, <<>>, <<>>),
      TextRow(<<"a", "_", "1">>, tOptOK, <<>>, <<>>),
      TextRow(<<"s", "2">>, tOptOK, <<>>, <<>>),
      RowNoteOnly }

AnchorFolders ==
    {NoCsvFolder, UnreadableFolder("a")}
    \cup {CsvFolder("a", FullHeader, rs) : rs \in SeqUpTo(AnchorRowPool, MaxAnchorRows)}

InitAnchors ==
    /\ \E f \in AnchorFolders : InitMainWith(<<f>>)
    /\ NoClassify
    /\ NoBrowser

SpecAnchors == InitAnchors /\ [][Next]_vars

(***************************************************************************)
(* Files for the three places a status is shown: one section whose items   *)
(* have a Primary cell with each marker, several markers, a marker in the  *)
(* option id only, a timestamp, or nothing.                                *)
(***************************************************************************)
MaxStatusRows == 2

StatusPrimaries ==
    { <<>>, <<"x">>, <<"o", "k">>,
      tOptOK, <<"2", "|">> \o sNonCompliant, sBuHeGe,
      sInfo, <<"4", "|">> \o sShuoMing, sNSpaceA, sNA,
      sInfo \o <<" ">> \o sNA, sNA \o <<" ">> \o sOK,
      sOK \o <<"|", "x">>, sInfo \o <<"|">> \o sNA,
      tEpoch, <<"3", "|", " ">> \o tEpoch \o <<" ">>,
      sOK \o <<"|">> \o tEpoch, tEpoch \o <<" ">> \o sOK }

StatusRowPool == {TextRow(<<"m">>, p, <<>>, <<>>) : p \in StatusPrimaries}

StatusFolders ==
    {NoCsvFolder, UnreadableFolder("a")}
    \cup {CsvFolder("a", FullHeader, <<RowChecks>> \o rs) :
            rs \in SeqUpTo(StatusRowPool, MaxStatusRows)}

InitStatus ==
    /\ \E f \in StatusFolders : InitMainWith(<<f>>)
    /\ NoClassify
    /\ NoBrowser

SpecStatus == InitStatus /\ [][Next]_vars

(***************************************************************************)
(* The emitted document in a browser: the filter markup (933-952) and the  *)
(* script (1198-1264).  An item element is named by its place <<k, i>>:    *)
(* item i of section element k of the body.                                *)
(***************************************************************************)
\* The four filter options of the markup, lines 936-951.
FilterOptions == {"ok", "noncompliant", "info", "na"}

\* Line 1199.
InitialActiveFilters == {"ok", "noncompliant", "info", "na", "other"}

ItemElementsIn(doc) ==
    UNION {{<<k, i>> : i \in 1..Len(doc[k].items)} : k \in 1..Len(doc)}

DataStatus(doc, e) == doc[e[1]].items[e[2]].status

\* applyFilters with the items tested against the checked boxes instead of
\* the activeFilters set.
applyFilters_by_checkbox(doc, b) ==
    LET hidden == {e \in ItemElementsIn(doc) : DataStatus(doc, e) \notin b.checked}
    IN [b EXCEPT
          !.hiddenItems = hidden,
          !.hiddenSections =
              {k \in 1..Len(doc) :
                  \A i \in 1..Len(doc[k].items) : <<k, i>> \in hidden}]

\* applyFilters without the else branch of lines 1243-1245: a hidden
\* section stays hidden.
applyFilters_sections_stay_hidden(doc, b) ==
    LET hidden == {e \in ItemElementsIn(doc) : DataStatus(doc, e) \notin b.activeFilters}
    IN [b EXCEPT
          !.hiddenItems = hidden,
          !.hiddenSections =
              @ \cup {k \in 1..Len(doc) :
                         \A i \in 1..Len(doc[k].items) : <<k, i>> \in hidden}]

\* applyFilters, lines 1221-1250: b is the state of the page.
applyFilters(doc, b) ==
    LET hidden == {e \in ItemElementsIn(doc) : DataStatus(doc, e) \notin b.activeFilters}
    IN [b EXCEPT
          !.hiddenItems = hidden,
          !.hiddenSections =
              {k \in 1..Len(doc) :
                  \A i \in 1..Len(doc[k].items) : <<k, i>> \in hidden}]

\* toggleFilter, lines 1201-1219; onElement is event.target === element.
toggleFilter(doc, b, filterType, onElement) ==
    LET nowChecked ==
            IF onElement
            THEN IF filterType \in b.checked
                 THEN b.checked \ {filterType}
                 ELSE b.checked \cup {filterType}
            ELSE b.checked
        on == filterType \in nowChecked
    IN applyFilters(doc,
           [b EXCEPT
              !.checked = nowChecked,
              !.activeOpts = IF on THEN @ \cup {filterType} ELSE @ \ {filterType},
              !.activeFilters = IF on THEN @ \cup {filterType} ELSE @ \ {filterType}])

Page ==
    [checked |-> checked, activeOpts |-> activeOpts, activeFilters |-> activeFilters,
     hiddenItems |-> hiddenItems, hiddenSections |-> hiddenSections]

SetPage(b) ==
    /\ checked' = b.checked
    /\ activeOpts' = b.activeOpts
    /\ activeFilters' = b.activeFilters
    /\ hiddenItems' = b.hiddenItems
    /\ hiddenSections' = b.hiddenSections

\* The browser's part of a click on a checkbox: its checkedness flips.
FlipCheckbox(b, f) ==
    [b EXCEPT !.checked = IF f \in @ THEN @ \ {f} ELSE @ \cup {f}]

\* A click on the checkbox of option f: the box flips, its click event
\* bubbles to the option's onclick (936), then its onchange runs (937).
\* Both call toggleFilter with the checkbox as event target.
AfterCheckboxClick(doc, b, f) ==
    toggleFilter(doc, toggleFilter(doc, FlipCheckbox(b, f), f, FALSE), f, FALSE)

\* A click on the filter option itself, outside its checkbox and label.
ClickOption ==
    /\ \E f \in FilterOptions : SetPage(toggleFilter(document, Page, f, TRUE))
    /\ UNCHANGED <<document, loaded, classifyVars, mainVars>>

ClickCheckbox ==
    /\ \E f \in FilterOptions : SetPage(AfterCheckboxClick(document, Page, f))
    /\ UNCHANGED <<document, loaded, classifyVars, mainVars>>

\* A click on the label of option f (938): the click bubbles to the
\* option's onclick with the label as target, then the label activates its
\* checkbox.
ClickLabel ==
    /\ \E f \in FilterOptions :
          SetPage(AfterCheckboxClick(document,
                                     toggleFilter(document, Page, f, FALSE), f))
    /\ UNCHANGED <<document, loaded, classifyVars, mainVars>>

\* Lines 1262-1264.
DOMContentLoaded ==
    /\ ~loaded
    /\ loaded' = TRUE
    /\ SetPage(applyFilters(document, Page))
    /\ UNCHANGED <<document, classifyVars, mainVars>>

NextFilter ==
    \/ ClickOption
    \/ ClickCheckbox
    \/ ClickLabel
    \/ DOMContentLoaded

\* The documents generate_html_report writes for the files of at most
\* MaxRows rows of the pool.
Documents ==
    {RenderBody(NoImages, organize_items_by_sections(
         read_csv_data(CsvFolder("a", FullHeader, rs).rows).items)) :
        rs \in SeqUpTo(RowPool, MaxRows)}

InitFilter ==
    /\ document \in Documents
    /\ checked = FilterOptions
    /\ activeOpts = FilterOptions
    /\ activeFilters = InitialActiveFilters
    /\ hiddenItems = {}
    /\ hiddenSections = {}
    /\ loaded = FALSE
    /\ Idle
    /\ NoClassify

SpecFilter == InitFilter /\ [][NextFilter]_vars

(***************************************************************************)
(* The classifier on its own: display texts are concatenations of at most  *)
(* MaxFragments fragments, so markers occur alone, together, in lower      *)
(* case, and assembled across fragment borders ("n" + ".a.").              *)
(***************************************************************************)
Fragments ==
    { sOK, <<"o", "k">>, sNonCompliant, sBuHeGe, sInfo, sShuoMing, sNSpaceA, sNA,
      <<"n">>, <<".", "a", ".">>, <<"x", " ">> }

DisplayTexts == {Concat(fs) : fs \in SeqUpTo(Fragments, MaxFragments)}

InitClassify ==
    /\ value \in DisplayTexts
    /\ status = "unset"
    /\ Idle
    /\ NoBrowser

Classify ==
    /\ status = "unset"
    /\ status' = get_status_type(value)
    /\ UNCHANGED <<value, mainVars, browserVars>>

NextClassify == Classify

SpecClassify == InitClassify /\ [][NextClassify]_vars

(***************************************************************************)
(* C1                                                                      *)
(***************************************************************************)
StatusTypes == {"ok", "noncompliant", "info", "na", "other"}

\* The markers of each status and the priority of the statuses.
MarkersOf(s) ==
    CASE s = "ok" -> {sOK}
      [] s = "noncompliant" -> {sNonCompliant, sBuHeGe}
      [] s = "info" -> {sInfo, sShuoMing}
      [] s = "na" -> {sNSpaceA, sNA}
      [] OTHER -> {}

Priority(s) ==
    CASE s = "ok" -> 1 [] s = "noncompliant" -> 2 [] s = "info" -> 3
      [] s = "na" -> 4 [] OTHER -> 5

Marked(v) == {s \in StatusTypes : \E m \in MarkersOf(s) : Contains(v, m)}

\* C1: the status returned for a display text is one of the five statuses;
\* it is "other" when no marker occurs in the text, and otherwise it is the
\* status of highest priority (ok > noncompliant > info > na) among the
\* statuses whose marker occurs in the text.
C1_StatusPriority ==
    status # "unset" =>
        /\ status \in StatusTypes
        /\ (Marked(value) = {} => status = "other")
        /\ (Marked(value) # {} =>
               /\ status \in Marked(value)
               /\ \A t \in Marked(value) : Priority(status) <= Priority(t))

\* A text holding both an info marker and an n.a. marker was classified info.
C1_Witness ==
    /\ status = "info"
    /\ {"info", "na"} \subseteq Marked(value)

(***************************************************************************)
(* Vocabulary of the claims about a rendered document: the document is     *)
(* written and the call has not returned yet, so the item list and the     *)
(* sections it was rendered from are still at hand.                        *)
(***************************************************************************)
Rendered == gpc = "returned"

Doc == outputs[OutputPath][1]

\* At least one of Primary, Secondary, Note, Media is a non-empty string.
Answered(item) ==
    \E k \in {sPrimary, sSecondary, sNote, sMedia} :
        k \in DOMAIN item /\ item[k] # <<>>

\* Case-insensitive "location", or U+5730 U+70B9.
MatchesLocation(label) ==
    \/ \E i \in 0..(Len(label) - 8) :
           Lower(SubSeq(label, i + 1, i + 8)) = sLocation
    \/ \E i \in 0..(Len(label) - 2) : SubSeq(label, i + 1, i + 2) = sDiDian

NavEntries == UNION {Range(Doc.toc[k].items) : k \in 1..Len(Doc.toc)}
BodyElements == UNION {Range(Doc.body[k].items) : k \in 1..Len(Doc.body)}

\* The navigation entries and body elements rendered under section k.
NavEntriesOf(k) ==
    UNION {Range(Doc.toc[j].items) : j \in {j \in 1..Len(Doc.toc) : Doc.toc[j].src = k}}
BodyElementsOf(k) ==
    UNION {Range(Doc.body[j].items) : j \in {j \in 1..Len(Doc.body) : Doc.body[j].src = k}}

InNav(k) == \E j \in 1..Len(Doc.toc) : Doc.toc[j].src = k
InBody(k) == \E j \in 1..Len(Doc.body) : Doc.body[j].src = k

(***************************************************************************)
(* C2                                                                      *)
(***************************************************************************)
\* C2: an item whose Primary, Secondary, Note and Media are all empty has
\* neither a navigation entry nor a body element in the rendered document.
C2_UnansweredAbsent ==
    Rendered =>
        \A i \in 1..Len(items) :
            ~Answered(items[i]) =>
                /\ \A n \in NavEntries : n.src # items[i]
                /\ \A e \in BodyElements : e.src # items[i]

\* A document was rendered from a section holding an unanswered item beside
\* an emitted one.
C2_Witness ==
    /\ Rendered
    /\ \E k \in 1..Len(sections) :
          /\ \E i \in 1..Len(sections[k].items) :
                 /\ ~Answered(sections[k].items[i])
                 /\ sections[k].items[i][sType] # sCategory
          /\ BodyElementsOf(k) # {}
          /\ NavEntriesOf(k) # {}

(***************************************************************************)
(* C3                                                                      *)
(***************************************************************************)
\* C3: an answered item of a section whose Type is not category is a body
\* element of that section exactly when its label does not match the
\* location heuristic, and no body element at all has a matching label.
C3_BodyIffNotLocation ==
    Rendered =>
        /\ \A k \in 1..Len(sections) :
              \A i \in 1..Len(sections[k].items) :
                  LET item == sections[k].items[i]
                  IN (Answered(item) /\ item[sType] # sCategory) =>
                         ((\E e \in BodyElementsOf(k) : e.src = item)
                              <=> ~MatchesLocation(item[sLabel]))
        /\ \A e \in BodyElements : ~MatchesLocation(e.src[sLabel])

\* One section held an answered location item, left out, and an answered
\* ordinary item, emitted.
C3_Witness ==
    /\ Rendered
    /\ \E k \in 1..Len(sections) :
          /\ \E i \in 1..Len(sections[k].items) :
                 LET item == sections[k].items[i]
                 IN /\ Answered(item)
                    /\ item[sType] # sCategory
                    /\ MatchesLocation(item[sLabel])
                    /\ \A e \in BodyElements : e.src # item
          /\ BodyElementsOf(k) # {}

(***************************************************************************)
(* C4                                                                      *)
(***************************************************************************)
HasAnsweredItem(section) ==
    \E i \in 1..Len(section.items) :
        Answered(section.items[i]) /\ section.items[i][sType] # sCategory

\* C4: a section is in the navigation panel and in the body when it owns
\* an answered item that is no category, and in neither of them otherwise.
C4_SectionEmission ==
    Rendered =>
        \A k \in 1..Len(sections) :
            /\ InNav(k) <=> HasAnsweredItem(sections[k])
            /\ InBody(k) <=> HasAnsweredItem(sections[k])

\* A section with an answered category and an unanswered item only, left
\* out, and an emitted section, in one document.
C4_Witness ==
    /\ Rendered
    /\ \E k \in 1..Len(sections) :
          /\ sections[k].items # <<>>
          /\ ~HasAnsweredItem(sections[k])
          /\ ~InNav(k)
          /\ ~InBody(k)
    /\ \E k \in 1..Len(sections) : InNav(k) /\ InBody(k)

(***************************************************************************)
(* C5                                                                      *)
(***************************************************************************)
\* C5: for every item entry of the navigation panel the body holds an
\* element whose id is the entry's target anchor.
C5_NavTargetsResolve ==
    Rendered =>
        \A n \in NavEntries : \E e \in BodyElements : e.id = n.target

(***************************************************************************)
(* C10                                                                     *)
(***************************************************************************)
Organized == gpc \in {"toc", "body", "write", "returned"}

SectionRows == {i \in 1..Len(items) : items[i][sType] = sSection}

\* The k-th section-typed row and the row that ends its section.
KthSectionRow(k) ==
    CHOOSE i \in SectionRows : Cardinality({j \in SectionRows : j <= i}) = k
EndOfSection(k) ==
    IF k < Cardinality(SectionRows) THEN KthSectionRow(k + 1) ELSE Len(items) + 1

\* C10: the organizer returns one section per section-typed row, in source
\* order, each with the id and label of its row and owning exactly the rows
\* strictly between its row and the next section-typed row or the end of
\* the list, category rows included; rows before the first section row are
\* in no section and a section without following rows has no items.
C10_SectionsOwnFollowingRows ==
    Organized =>
        /\ Len(sections) = Cardinality(SectionRows)
        /\ \A k \in 1..Len(sections) :
              /\ sections[k].id = items[KthSectionRow(k)][sID]
              /\ sections[k].label = items[KthSectionRow(k)][sLabel]
              /\ sections[k].items =
                     SubSeq(items, KthSectionRow(k) + 1, EndOfSection(k) - 1)

\* A row before the first section row, a section without rows, and a last
\* section owning a category row.
C10_Witness ==
    /\ Organized
    /\ Len(items) >= 1 /\ items[1][sType] # sSection
    /\ Len(sections) = 2
    /\ sections[1].items = <<>>
    /\ Len(sections[2].items) = 1
    /\ sections[2].items[1][sType] = sCategory

(***************************************************************************)
(* C8                                                                      *)
(***************************************************************************)
AttemptsInOrder ==
    /\ \A i \in 1..Len(folders) :
          /\ attempts[i] <= 1
          /\ attempts[i] = 1 => (i <= fidx /\ folders[i].has_csv)
          /\ (i < fidx /\ folders[i].has_csv) => attempts[i] = 1
    /\ mpc = "done" =>
          \A i \in 1..Len(folders) :
              attempts[i] = IF folders[i].has_csv THEN 1 ELSE 0

\* C8: the folders are taken one after another in listing order, each one
\* with a CSV file is attempted exactly once, whatever happened to the
\* folders before it, and a run over at least one folder reaches its end.
C8_EverySourceAttemptedOnce ==
    /\ []AttemptsInOrder
    /\ (folders # <<>>) ~> (mpc = "done")

\* The run is over; the report of the first folder raised while loading,
\* the one of the second raised while organizing, and the third folder was
\* attempted and its report written.
C8_Witness ==
    /\ mpc = "done"
    /\ Len(folders) = 3
    /\ ~folders[1].readable /\ folders[1].has_csv
    /\ folders[2].has_csv /\ folders[2].readable
    /\ OrganizeRaises(read_csv_data(folders[2].rows).items)
    /\ attempts = <<1, 1, 1>>
    /\ outputs[folders[3].name] # <<>>

(***************************************************************************)
(* C9                                                                      *)
(***************************************************************************)
\* The document of the folder at hand, rendered in full.
CompleteDocument ==
    LET secs == organize_items_by_sections(read_csv_data(CurrentFolder.rows).items)
    IN [toc |-> RenderToc(secs), body |-> RenderBody(CurrentFolder.files, secs)]

\* C9: the output paths change only in the step that follows loading,
\* organizing and rendering, and that step puts the complete document at
\* the output path of the folder at hand; a step that raises leaves every
\* output path as it was.
C9_WriteAfterRendering ==
    [][/\ outputs' # outputs =>
              /\ gpc = "write" /\ gpc' = "returned"
              /\ outputs' = [outputs EXCEPT ![OutputPath] = <<CompleteDocument>>]
       /\ gpc' = "raised" => outputs' = outputs]_vars

\* A report raised while rendering its body, and its output path still
\* holds the document an earlier folder wrote there.
C9_Witness ==
    /\ gpc = "raised"
    /\ CurrentFolder.readable
    /\ ~OrganizeRaises(read_csv_data(CurrentFolder.rows).items)
    /\ outputs[OutputPath] # <<>>

(***************************************************************************)
(* C6                                                                      *)
(***************************************************************************)
\* C6: whatever filter options were clicked, "other" stays in the active
\* filter set and no item whose status is other is hidden.
C6_OtherAlwaysShown ==
    /\ "other" \in activeFilters
    /\ \A e \in ItemElementsIn(document) :
          DataStatus(document, e) = "other" => e \notin hiddenItems

\* All four filters are switched off: an item is hidden, an item whose
\* status is other is still shown.
C6_Witness ==
    /\ checked = {}
    /\ activeFilters = {"other"}
    /\ hiddenItems # {}
    /\ \E e \in ItemElementsIn(document) :
          DataStatus(document, e) = "other" /\ e \notin hiddenItems

(***************************************************************************)
(* C11                                                                     *)
(***************************************************************************)
\* The file generate_html_report is reading, and whether read_csv_data has
\* returned its records.
File == CurrentFolder.rows
Loaded == mpc = "call" /\ gpc = "organize"

IsHeaderRow(row) == row # <<>> /\ row[1] = sID

\* The row the claim calls the header: 0 when there is none.
FirstHeaderRow ==
    IF \E i \in 1..Len(File) : IsHeaderRow(File[i])
    THEN CHOOSE i \in 1..Len(File) :
             /\ IsHeaderRow(File[i])
             /\ \A j \in 1..(i - 1) : ~IsHeaderRow(File[j])
    ELSE 0

\* The rows after the header that are non-empty with a non-empty first cell.
DataRows ==
    {i \in (FirstHeaderRow + 1)..Len(File) : File[i] # <<>> /\ File[i][1] # <<>>}

\* The n-th data row, in source order.
NthDataRow(n) == CHOOSE i \in DataRows : Cardinality({j \in DataRows : j <= i}) = n

CellOrEmpty(row, p) == IF p <= Len(row) THEN row[p] ELSE <<>>

\* No later column of the header carries the name of column p.
LastOfItsName(header, p) == \A q \in DOMAIN header : header[q] = header[p] => q <= p

OneRecordPerDataRow ==
    /\ FirstHeaderRow = 0 => items = <<>>
    /\ FirstHeaderRow # 0 =>
          /\ Len(items) = Cardinality(DataRows)
          /\ \A n \in 1..Len(items) : DOMAIN items[n] = Range(File[FirstHeaderRow])

\* C11 as stated: after read_csv_data returned, there is one record per
\* data row, in source order, and the record's value for every column of
\* the header is the row's cell at the column's position, or '' when the
\* row is shorter.
C11_EveryColumnByPosition ==
    Loaded =>
        /\ OneRecordPerDataRow
        /\ FirstHeaderRow # 0 =>
              \A n \in 1..Len(items) : \A p \in DOMAIN File[FirstHeaderRow] :
                  items[n][File[FirstHeaderRow][p]] = CellOrEmpty(File[NthDataRow(n)], p)

\* C11 amended: the header is the first non-empty row whose first cell is
\* 'ID'; every later non-empty row with a non-empty first cell yields one
\* record, in source order, with one value per column name of the header:
\* the cell at the position of the last column of that name, '' when the
\* row does not reach it; and a file that can be read never makes the
\* loader raise.
C11_EveryColumnNameByLastPosition ==
    /\ Loaded =>
          /\ OneRecordPerDataRow
          /\ FirstHeaderRow # 0 =>
                \A n \in 1..Len(items) : \A p \in DOMAIN File[FirstHeaderRow] :
                    LastOfItsName(File[FirstHeaderRow], p) =>
                        items[n][File[FirstHeaderRow][p]]
                            = CellOrEmpty(File[NthDataRow(n)], p)
    /\ (mpc = "call" /\ gpc = "raised" /\ CurrentFolder.readable) => items # <<>>

\* Two records in source order under the two-column header, the first
\* from a row that is too short and padded, the second from a row that is
\* too long.
C11_Witness ==
    /\ Loaded
    /\ FirstHeaderRow > 1
    /\ File[FirstHeaderRow] = <<sID, sNote>>
    /\ Len(items) = 2
    /\ File[NthDataRow(1)] = <<cX>>
    /\ items[1][sNote] = <<>>
    /\ File[NthDataRow(2)] = <<cX, cY, cZ>>
    /\ items[2][sNote] = cY

(***************************************************************************)
(* C12                                                                     *)
(***************************************************************************)
\* The identifiers a Media cell lists: its parts between semicolons,
\* without surrounding whitespace, the empty ones left out.
Referenced(item) == ImageIds(item[sMedia])

\* The file the identifier resolves to: its first extension, in the order
\* .jpg, .jpeg, .png, under which a file exists.
ResolvesTo(img_id, n) ==
    /\ <<img_id, ImageExtensions[n]>> \in DOMAIN CurrentFolder.files
    /\ \A m \in 1..(n - 1) : <<img_id, ImageExtensions[m]>> \notin DOMAIN CurrentFolder.files

ResolvedAndRead(img_id) ==
    \E n \in 1..3 :
        ResolvesTo(img_id, n) /\ CurrentFolder.files[<<img_id, ImageExtensions[n]>>]

\* C12: in a folder whose CSV file has every column, whatever image files
\* exist and can be read, the report does not raise; an item that lists
\* images is a body element all the same; and the image elements of its
\* grid are, in the order listed, those of the identifiers that resolve to
\* a file that was read, and of no other.
C12_UnusableImagesOmitted ==
    /\ (mpc = "call" /\ CurrentFolder.rows # <<>>
           /\ CurrentFolder.rows[3] = FullHeader) => gpc # "raised"
    /\ Rendered =>
          /\ \A i \in 1..Len(items) :
                (items[i][sType] = tItem /\ items[i][sMedia] # <<>>) =>
                    \E e \in BodyElements : e.src = items[i]
          /\ \A e \in BodyElements :
                \A g \in 1..Len(e.images) :
                    /\ [n \in 1..Len(e.images[g]) |-> e.images[g][n].alt]
                           = SelectSeq(Referenced(e.src), ResolvedAndRead)
                    /\ \A n \in 1..Len(e.images[g]) :
                           \E m \in 1..3 :
                               /\ ResolvesTo(e.images[g][n].alt, m)
                               /\ e.images[g][n].src.data
                                      = <<e.images[g][n].alt, ImageExtensions[m]>>

\* An item lists p and q; p exists as an unreadable .jpg and a readable
\* .png, q as a readable file: the item is emitted with q alone in its
\* grid.
C12_Witness ==
    /\ Rendered
    /\ \E e \in BodyElements :
          /\ Referenced(e.src) = << <<"p">>, <<"q">> >>
          /\ << <<"p">>, ".jpg" >> \in DOMAIN CurrentFolder.files
          /\ ~CurrentFolder.files[<< <<"p">>, ".jpg" >>]
          /\ << <<"p">>, ".png" >> \in DOMAIN CurrentFolder.files
          /\ CurrentFolder.files[<< <<"p">>, ".png" >>]
          /\ Len(e.images) = 1
          /\ Len(e.images[1]) = 1
          /\ e.images[1][1].alt = <<"q">>

(***************************************************************************)
(* C13                                                                     *)
(***************************************************************************)
\* The number of image identifiers the item's Media lists.
Photos(item) == Len(Referenced(item))

\* The value of the small-item counter before the n-th element of a body
\* section: 0 at the section start, else what the element before left.
CounterBefore(sec, n) == IF n = 1 THEN 0 ELSE sec.items[n - 1].small_items_count

\* C13: a body element whose item lists 5 or more image identifiers has
\* the hint page-break-after and leaves the small-item counter at 0,
\* whether the counter was 0 or 1 before it.
C13_ManyPhotosBreakAndReset ==
    Rendered =>
        \A k \in 1..Len(Doc.body) : \A n \in 1..Len(Doc.body[k].items) :
            LET e == Doc.body[k].items[n]
            IN Photos(e.src) >= 5 =>
                   /\ CounterBefore(Doc.body[k], n) \in {0, 1}
                   /\ e.page_break_class = "page-break-after"
                   /\ e.small_items_count = 0

\* One section rendered an item with five photos at counter 0 and another
\* at counter 1.
C13_Witness ==
    /\ Rendered
    /\ \E k \in 1..Len(Doc.body) :
          \E n, m \in 1..Len(Doc.body[k].items) :
              /\ Photos(Doc.body[k].items[n].src) >= 5
              /\ CounterBefore(Doc.body[k], n) = 0
              /\ Doc.body[k].items[n].page_break_class = "page-break-after"
              /\ Photos(Doc.body[k].items[m].src) >= 5
              /\ CounterBefore(Doc.body[k], m) = 1
              /\ Doc.body[k].items[m].page_break_class = "page-break-after"

(***************************************************************************)
(* C16                                                                     *)
(***************************************************************************)
\* The number of elements since the last element with 5 photos or more
\* before the n-th, or since the section start, the n-th included.
SmallRun(sec, n) ==
    LET many == {m \in 1..(n - 1) : Photos(sec.items[m].src) >= 5}
    IN n - (IF many = {} THEN 0 ELSE CHOOSE m \in many : \A j \in many : j <= m)

\* The rendered items of a section: answered, no category, no location
\* label, in display order.
RenderedPlaces(k) ==
    SelectSeq(DisplayOrder(sections[k]),
              LAMBDA i : /\ Answered(sections[k].items[i])
                         /\ sections[k].items[i][sType] # sCategory
                         /\ ~MatchesLocation(sections[k].items[i][sLabel]))

\* C16: the elements of a body section are its rendered items alone, so
\* skipped items count for nothing; each section starts counting anew; an
\* element with fewer than 5 photos has the hint page-break-after-small
\* exactly when it is the 2nd, 4th, ... small element since the section
\* start or the last element with 5 photos or more, and the counter after
\* it is 0 then and 1 otherwise.
C16_EverySecondSmallItemBreaks ==
    Rendered =>
        \A k \in 1..Len(Doc.body) :
            /\ [n \in 1..Len(Doc.body[k].items) |-> Doc.body[k].items[n].pos]
                   = RenderedPlaces(Doc.body[k].src)
            /\ \A n \in 1..Len(Doc.body[k].items) :
                  LET e == Doc.body[k].items[n]
                  IN Photos(e.src) < 5 =>
                         /\ (e.page_break_class = "page-break-after-small")
                                <=> (SmallRun(Doc.body[k], n) % 2 = 0)
                         /\ e.page_break_class \in {"", "page-break-after-small"}
                         /\ e.small_items_count = SmallRun(Doc.body[k], n) % 2

\* A section of three items, one of them skipped: of its two elements,
\* both with fewer than 5 photos and one with four, the first has no hint
\* and the second has it.
C16_Witness ==
    /\ Rendered
    /\ \E k \in 1..Len(Doc.body) :
          /\ Len(sections[Doc.body[k].src].items) = 3
          /\ Len(Doc.body[k].items) = 2
          /\ \E n \in 1..2 : Photos(Doc.body[k].items[n].src) = 4
          /\ Doc.body[k].items[1].page_break_class = ""
          /\ Doc.body[k].items[1].small_items_count = 1
          /\ Doc.body[k].items[2].page_break_class = "page-break-after-small"
          /\ Doc.body[k].items[2].small_items_count = 0

(***************************************************************************)
(* C14                                                                     *)
(***************************************************************************)
\* The text a notes block shows: its content without the span tags.
Shown(block) == SelectSeq(block, LAMBDA c : c \notin {"<span>", "</span>"})

DisplayHalf(primary) ==
    IF \E i \in 1..Len(primary) : primary[i] = "|"
    THEN LET i == CHOOSE i \in 1..Len(primary) :
                      primary[i] = "|" /\ \A j \in 1..(i - 1) : primary[j] # "|"
         IN SubSeq(primary, i + 1, Len(primary))
    ELSE primary

\* The text without its leading and trailing whitespace.
Trimmed(t) ==
    LET inner == {i \in 1..Len(t) : ~IsSpace(t[i])}
    IN IF inner = {} THEN <<>>
       ELSE SubSeq(t, CHOOSE i \in inner : \A j \in inner : i <= j,
                      CHOOSE i \in inner : \A j \in inner : j <= i)

\* Digits only, ten of them; decimal digits only.
TenDigits(t) ==
    Len(t) = 10 /\ \A i \in 1..10 : t[i] \in DOMAIN DecimalValue \cup {"u00b2"}
Convertible(t) == \A i \in 1..Len(t) : t[i] \in DOMAIN DecimalValue

\* DD.MM.YYYY HH:MM
IsDateTime(t) ==
    /\ Len(t) = 16
    /\ t[3] = "." /\ t[6] = "." /\ t[11] = " " /\ t[14] = ":"
    /\ \A i \in (1..16) \ {3, 6, 11, 14} :
           t[i] \in {"0", "1", "2", "3", "4", "5", "6", "7", "8", "9"}

NoReportRaises ==
    (mpc = "call" /\ CurrentFolder.rows # <<>> /\ CurrentFolder.rows[3] = FullHeader)
        => gpc # "raised"

\* C15 as stated: the value block of a body element shows a date-time in
\* place of the display half of Primary when the display half is ten
\* digits that can be converted, and shows the display half unchanged in
\* every other case; no report raises.
C15_TenDigitsExactly ==
    /\ NoReportRaises
    /\ Rendered =>
          \A e \in BodyElements :
              e.src[sPrimary] # <<>> =>
                  LET raw == DisplayHalf(e.src[sPrimary])
                  IN IF TenDigits(raw) /\ Convertible(raw)
                     THEN IsDateTime(e.value[1].text)
                     ELSE e.value[1].text = raw

\* C15 amended: the test is made on the display half without its leading
\* and trailing whitespace.
C15_TenDigitsAfterTrimming ==
    /\ NoReportRaises
    /\ Rendered =>
          \A e \in BodyElements :
              e.src[sPrimary] # <<>> =>
                  LET raw == DisplayHalf(e.src[sPrimary])
                  IN IF TenDigits(Trimmed(raw)) /\ Convertible(Trimmed(raw))
                     THEN IsDateTime(e.value[1].text)
                     ELSE e.value[1].text = raw

\* One document shows 1700000000 as 14.11.2023 22:13, nine digits
\* unchanged, and ten digit characters that cannot be converted unchanged.
C15_Witness ==
    /\ Rendered
    /\ \E e \in BodyElements :
          /\ e.src[sPrimary] = tEpoch
          /\ e.value[1].text = <<"1", "4", ".", "1", "1", ".", "2", "0", "2", "3", " ",
                                  "2", "2", ":", "1", "3">>
    /\ \E e \in BodyElements :
          /\ e.src[sPrimary] = SubSeq(tEpoch, 1, 9)
          /\ e.value[1].text = SubSeq(tEpoch, 1, 9)
    /\ \E e \in BodyElements :
          /\ TenDigits(e.src[sPrimary]) /\ ~Convertible(e.src[sPrimary])
          /\ e.value[1].text = e.src[sPrimary]

(***************************************************************************)
(* C17                                                                     *)
(***************************************************************************)
\* lit occurs in the label when letter case is ignored.
ContainsFolded(label, lit) ==
    \E i \in 0..(Len(label) - Len(lit)) :
        Lower(SubSeq(label, i + 1, i + Len(lit))) = lit

ContainsExactly(label, lit) ==
    \E i \in 0..(Len(label) - Len(lit)) : SubSeq(label, i + 1, i + Len(lit)) = lit

MatchesTitlePage(label) ==
    ContainsFolded(label, sTitle) \/ ContainsExactly(label, sBiaoTiYe)

MatchesMachine(label) ==
    ContainsFolded(label, sMachineDesignation) \/ ContainsExactly(label, sJiQiMingCheng)

\* The places, in the section's item list, of the elements of a body
\* section, in body order.
PlacesOf(sec) == [n \in 1..Len(sec.items) |-> sec.items[n].pos]

\* C17: the elements of a body section are the section's rendered items,
\* each once.  Under a title-page label the elements of items with a
\* machine-designation label come first, in source order, then the others
\* in source order; under any other label all are in source order.
C17_TitlePageStablePartition ==
    Rendered =>
        \A k \in 1..Len(Doc.body) :
            LET sec == Doc.body[k]
                its == sections[sec.src].items
                P == PlacesOf(sec)
                machine(i) == MatchesMachine(its[i][sLabel])
            IN /\ \A n, m \in 1..Len(P) : P[n] = P[m] => n = m
               /\ Range(P) = {i \in 1..Len(its) :
                                  /\ Answered(its[i])
                                  /\ its[i][sType] # sCategory
                                  /\ ~MatchesLocation(its[i][sLabel])}
               /\ \A n \in 1..Len(P) : sec.items[n].src = its[P[n]]
               /\ \A n, m \in 1..Len(P) :
                     n < m =>
                         IF MatchesTitlePage(sec.label)
                         THEN \/ machine(P[n]) /\ ~machine(P[m])
                              \/ (machine(P[n]) <=> machine(P[m])) /\ P[n] < P[m]
                         ELSE P[n] < P[m]

\* A title-page section whose third item has a machine label and whose
\* first two have not: the body shows the third, the first, the second.
C17_Witness ==
    /\ Rendered
    /\ \E k \in 1..Len(Doc.body) :
          /\ MatchesTitlePage(Doc.body[k].label)
          /\ PlacesOf(Doc.body[k]) = <<3, 1, 2>>
          /\ Doc.body[k].items[2].src # Doc.body[k].items[3].src

(***************************************************************************)
(* C19                                                                     *)
(***************************************************************************)
\* C19: for a section in the navigation panel and in the body, the
\* targets of its navigation entries that are anchors of its body
\* elements come in the order of those anchors in the body.
C19_NavOrderIsBodyOrder ==
    Rendered =>
        \A j \in 1..Len(Doc.toc) : \A k \in 1..Len(Doc.body) :
            Doc.toc[j].src = Doc.body[k].src =>
                LET targets == [n \in 1..Len(Doc.toc[j].items) |-> Doc.toc[j].items[n].target]
                    anchors == [n \in 1..Len(Doc.body[k].items) |-> Doc.body[k].items[n].id]
                IN SelectSeq(targets, LAMBDA t : t \in Range(anchors))
                       = SelectSeq(anchors, LAMBDA a : a \in Range(targets))

(***************************************************************************)
(* C20                                                                     *)
(***************************************************************************)
\* C20: every section element of the body holds an item element.
C20_NoEmptySectionElement ==
    Rendered => \A k \in 1..Len(Doc.body) : Doc.body[k].items # <<>>

(***************************************************************************)
(* C18                                                                     *)
(***************************************************************************)
\* An item is hidden exactly when its status is not in the active filter
\* set, a section exactly when none of its items is visible.
VisibilityRule ==
    /\ hiddenItems = {e \in ItemElementsIn(document) :
                         DataStatus(document, e) \notin activeFilters}
    /\ hiddenSections = {k \in 1..Len(document) :
                            \A i \in 1..Len(document[k].items) : <<k, i>> \in hiddenItems}

\* The page after a click of the given kind on filter f.
Clicked(b, kind, f) ==
    CASE kind = "option" -> toggleFilter(document, b, f, TRUE)
      [] kind = "checkbox" -> AfterCheckboxClick(document, b, f)
      [] kind = "label" ->
             AfterCheckboxClick(document, toggleFilter(document, b, f, FALSE), f)

\* A click on a filter flips it, and a second click on the same filter
\* brings back the active set and the visibility of items and sections.
TwiceRestores ==
    \A f \in FilterOptions : \A kind1, kind2 \in {"option", "checkbox", "label"} :
        LET once == Clicked(Page, kind1, f)
            twice == Clicked(once, kind2, f)
        IN /\ (f \in once.activeFilters) <=> (f \notin activeFilters)
           /\ once.activeFilters \ {f} = activeFilters \ {f}
           /\ twice.activeFilters = activeFilters
           /\ twice.hiddenItems = hiddenItems
           /\ twice.hiddenSections = hiddenSections

\* C18: every step of the page, a click on a filter or the initial load,
\* ends in a state where the visibility rule holds; and in every state
\* where it holds, two clicks on the same filter restore the visibility.
C18_VisibilityFollowsFilters ==
    /\ [][VisibilityRule']_vars
    /\ [](VisibilityRule => TwiceRestores)

\* After the load and some clicks the ok filter is off: one section is
\* hidden with all its items, another is shown with a visible item.
C18_Witness ==
    /\ loaded
    /\ VisibilityRule
    /\ "ok" \notin activeFilters
    /\ \E k \in 1..Len(document) :
          k \in hiddenSections /\ document[k].items # <<>>
    /\ \E k \in 1..Len(document) :
          k \notin hiddenSections /\ \E i \in 1..Len(document[k].items) :
              <<k, i>> \notin hiddenItems

(***************************************************************************)
(* C21                                                                     *)
(***************************************************************************)
\* The id attributes of the body in document order: each section element
\* followed by its item elements.
RECURSIVE AnchorsFrom(_)
AnchorsFrom(k) ==
    IF k > Len(Doc.body) THEN <<>>
    ELSE <<Doc.body[k].id>>
         \o [n \in 1..Len(Doc.body[k].items) |-> Doc.body[k].items[n].id]
         \o AnchorsFrom(k + 1)

Anchors == AnchorsFrom(1)

DistinctRowIDs == \A i, j \in 1..Len(items) : items[i][sID] = items[j][sID] => i = j

\* C21: in a document rendered from rows with pairwise distinct IDs, no
\* two section or item elements of the body have the same anchor.
C21_DistinctIDsDistinctAnchors ==
    (Rendered /\ DistinctRowIDs) =>
        \A n, m \in 1..Len(Anchors) : Anchors[n] = Anchors[m] => n = m

(***************************************************************************)
(* C22                                                                     *)
(***************************************************************************)
\* The status a styling class of a value block stands for.
StatusOfClass(c) ==
    CASE c = "status-ok" -> "ok"
      [] c = "status-noncompliant" -> "noncompliant"
      [] c = "status-info" -> "info"
      [] c = "status-na" -> "na"
      [] c = "" -> "other"
      [] OTHER -> "none"

\* The status an item element shows by its value block: the one its
\* styling class stands for, "other" when it has no value block.
StyledStatus(e) == IF e.value = <<>> THEN "other" ELSE StatusOfClass(e.value[1].color_class)

\* The status a navigation badge stands for.
StatusOfBadge(l) ==
    CASE l = "OK" -> "ok"
      [] l = "NC" -> "noncompliant"
      [] l = "Info" -> "info"
      [] l = "n.a." -> "na"
      [] l = "u2014" -> "other"
      [] OTHER -> "none"

Statuses == {"ok", "noncompliant", "info", "na", "other"}

\* C22: every item element of the body has a navigation entry in its
\* section, and the entry's badge, the element's data-status and the
\* styling class of its value block stand for one and the same status.
C22_OneStatusInThreePlaces ==
    Rendered =>
        \A k \in 1..Len(items) : \A e \in BodyElementsOf(k) :
            /\ e.status \in Statuses
            /\ StyledStatus(e) = e.status
            /\ \E n \in NavEntriesOf(k) : n.src = e.src
            /\ \A n \in NavEntriesOf(k) :
                    n.src = e.src =>
                        /\ n.status_type = e.status
                        /\ StatusOfBadge(n.status_label) = e.status

\* A document with an element whose value was rewritten as a date (all
\* three places say other) beside one with two markers (all say info).
C22_Witness ==
    /\ Rendered
    /\ \E k \in 1..Len(items) : \E e, f \in BodyElementsOf(k) :
        /\ DisplayHalf(e.src[sPrimary]) = <<" ">> \o tEpoch \o <<" ">>
        /\ e.value # <<>> /\ e.value[1].text # DisplayHalf(e.src[sPrimary])
        /\ e.status = "other" /\ e.value[1].color_class = ""
        /\ \E n \in NavEntriesOf(k) : n.src = e.src /\ n.status_label = "u2014"
        /\ DisplayHalf(f.src[sPrimary]) = sInfo \o <<" ">> \o sNA
        /\ f.status = "info" /\ f.value[1].color_class = "status-info"
        /\ \E n \in NavEntriesOf(k) : n.src = f.src /\ n.status_label = "Info"
====
